---- MODULE Spec2Model ----
(***************************************************************************)
(* A model of the StabDiffAuto1111 GIMP plug-in (gimp_sd_a1111.py and      *)
(* sd_gui_utils.py): the API client, the temporary-file list, the layer    *)
(* wrappers, the response materializer, the three generation commands, the *)
(* dialog loops that drive them, and the MyShelf settings file.            *)
(*                                                                         *)
(* Python methods are operators from a "world" (the mutable objects the    *)
(* method can touch) to a result [w, ret, exc]: the world after the call,  *)
(* the returned value and the exception that left the method ("none" when  *)
(* it returned).  Actions run one whole handler and store the world.       *)
(***************************************************************************)
EXTENDS Integers, Sequences, FiniteSets, TLC

VARIABLES
    doc,                \* Gimp.Image.list_layers(): the layer stack, top first
    sel,                \* the image's selection: "none", "part" or "all"
    disk,               \* the files that exist, as paths [dir, stem, id]
    cwd,                \* the directory relative paths resolve to
    files,              \* StabDiffAuto1111._files.files (TempFiles.files)
    layer_count,        \* StabDiffAuto1111._layer_count
    posts,              \* the request bodies handed to urlopen by ApiClient.post
    is_server_running,  \* StabDiffAuto1111._is_server_running
    pc,                 \* where the plug-in process is
    cmd,                \* the procedure GIMP invoked
    dialog,             \* the procedure dialog: "none", "open" or "destroyed"
    widgets,            \* what the dialog's widgets show
    responses,          \* DialogPopulator.__responses__ of the dialog's populators
    retval,             \* the status the run_* function returns
    applies,            \* Apply clicks handled by this dialog
    last,               \* what the last handler did (observation only)
    dims,               \* a size handed to the rounding functions, and the results
    settings,           \* StabDiffAuto1111.settings, the keys the handlers read
    shelf,              \* the MyShelf object, its file and the process that owns it
    base_url,           \* StabDiffAuto1111._api.base_url (ApiClient.base_url)
    layer_data          \* the parasite of the image's layer and the LayerData read from it

vars == << doc, sel, disk, cwd, files, layer_count, posts, is_server_running,
           pc, cmd, dialog, widgets, responses, retval, applies, last, dims,
           settings, shelf, base_url, layer_data >>

-----------------------------------------------------------------------------
(* Bounds of the model *)

MaxImages == 2      \* images, seeds and infotexts in one response
MaxApply == 2       \* Apply clicks in one dialog
RoundMax == 100     \* sizes handed to the rounding functions: -RoundMax..RoundMax
BatchMax == 24      \* batch sizes handed to the commands: -BatchMax..BatchMax
SeedMax == 3        \* integer seeds handed to the commands: -SeedMax..SeedMax

(* Program constants *)

MAX_BATCH_SIZE == 20
LAYER_INDEX_CORRECTION == 2

-----------------------------------------------------------------------------
(* Python values *)

None == [tag |-> "None"]
PyBool(b) == [tag |-> "bool", v |-> b]
PyInt(i) == [tag |-> "int", v |-> i]
PyStr(s) == [tag |-> "str", v |-> s]

\* Python truth value: bool(x)
Truthy(x) ==
    CASE x.tag = "None" -> FALSE
      [] x.tag = "bool" -> x.v
      [] x.tag = "int" -> x.v # 0
      [] x.tag = "str" -> x.v # ""
      [] OTHER -> TRUE

Ok(w, ret) == [w |-> w, ret |-> ret, exc |-> "none"]
Raise(w, e) == [w |-> w, ret |-> None, exc |-> e]

\* The value of F at x, with x evaluated once: a Python statement sequence
\* "v = x; ... v ... v ..." is Bind(x, LAMBDA v : ...).
Bind(x, F(_)) == CHOOSE y \in { F(v) : v \in { x } } : TRUE

Min(a, b) == IF a < b THEN a ELSE b
Max(a, b) == IF a > b THEN a ELSE b

-----------------------------------------------------------------------------
(* sd_gui_utils.round_to_multiple *)

\* Python's round(num / den) for integers num, den > 0: ties go to the even
\* neighbour.
PyRound(num, den) ==
    LET q == num \div den
        r == num % den
    IN  IF 2 * r < den THEN q
        ELSE IF 2 * r > den THEN q + 1
        ELSE IF q % 2 = 0 THEN q ELSE q + 1

\* A rounding that truncates instead of rounding to the nearest multiple.
round_to_multiple_floor(value, multiple) == multiple * (value \div multiple)

round_to_multiple(value, multiple) == multiple * PyRound(value, multiple)

-----------------------------------------------------------------------------
(* Layers.  A layer is [lid, kind, w, h, meta, mask]; lid identifies it.    *)

NoMeta == [tag |-> "none", seed |-> -1, info |-> -1]
CnMeta == [tag |-> "cn", seed |-> -1, info |-> -1]
ProvMeta(i) == [tag |-> "prov", seed |-> i, info |-> i]

ImageSize == << 100, 60 >>      \* Gimp.Image.get_width(), get_height()
PartSize == << 40, 20 >>        \* the bounds of a selection of part of the image

Range(s) == { s[i] : i \in 1..Len(s) }

\* Gimp.Image.insert_layer(layer, None, -1): the layer goes on top.
InsertLayer(d, layer) == << layer >> \o d

\* Gimp.Image.remove_layer(layer)
RemoveLayer(d, lid) == SelectSeq(d, LAMBDA l : l.lid # lid)

\* Gimp.Layer.scale(width, height, False) on the layers whose lid is in lids
ScaleLayers(d, lids, width, height) ==
    [ i \in 1..Len(d) |->
        IF d[i].lid \in lids THEN [ d[i] EXCEPT !.w = width, !.h = height ] ELSE d[i] ]

\* Gimp.Layer.add_mask on the layers whose lid is in lids
MaskLayers(d, lids) ==
    [ i \in 1..Len(d) |-> IF d[i].lid \in lids THEN [ d[i] EXCEPT !.mask = TRUE ] ELSE d[i] ]

-----------------------------------------------------------------------------
(* StabDiffAuto1111.TempFiles *)

TmpDir == "tmp"     \* tempfile.gettempdir()

\* TempFiles.get(filename): the bare file name is appended to the list, the
\* path under the temporary directory is returned.
TempFiles_get(list, stem, id) ==
    [ files |-> Append(list, [stem |-> stem, id |-> id]),
      path |-> [dir |-> TmpDir, stem |-> stem, id |-> id] ]

\* TempFiles.remove_all(): every listed name that exists is removed; the
\* names are the bare file names, so they resolve against the working directory.
TempFiles_remove_all(list, dsk, wd) ==
    dsk \ { [dir |-> wd, stem |-> f.stem, id |-> f.id] : f \in Range(list) }

-----------------------------------------------------------------------------
(* StabDiffAuto1111.ApiClient *)

HttpOutcomes == { "ok", "not_json", "non2xx", "unreachable" }

\* urllib.request.Request(url=base_url + endpoint + "?"): a URL without a
\* scheme is refused with ValueError("unknown url type").
Request(url) == IF url = "" THEN "ValueError" ELSE "none"

\* A post that sends the request once more when the first one failed.
ApiClient_post_retried(w, body, http, resp) ==
    LET sent == IF http \in { "non2xx", "unreachable" }
                THEN [ w EXCEPT !.posts = Append(Append(@, body), body),
                                !.urlopens = @ + 2 ]
                ELSE [ w EXCEPT !.posts = Append(@, body), !.urlopens = @ + 1 ]
        log(r) == [ r EXCEPT !.w.apilog =
                      Append(@, [method |-> "post",
                                 http |-> IF r.exc = "ValueError" THEN "unsent" ELSE http,
                                 ret |-> r.ret.tag, exc |-> r.exc]) ]
    IN  CASE Request(w.base_url) # "none" -> log(Raise(w, "ValueError"))
          [] http = "ok" -> log(Ok(sent, resp))
          [] http = "not_json" -> log(Raise(sent, "JSONDecodeError"))
          [] http = "non2xx" -> log(Ok(sent, None))
          [] http = "unreachable" -> log(Raise(sent, "URLError"))

\* ApiClient.post(endpoint, dict_in): urlopen sends the request; HTTPError
\* alone is caught.
ApiClient_post(w, body, http, resp) ==
    LET sent == [ w EXCEPT !.posts = Append(@, body), !.urlopens = @ + 1 ]
        log(r) == [ r EXCEPT !.w.apilog =
                      Append(@, [method |-> "post",
                                 http |-> IF r.exc = "ValueError" THEN "unsent" ELSE http,
                                 ret |-> r.ret.tag, exc |-> r.exc]) ]
    IN  CASE Request(w.base_url) # "none" -> log(Raise(w, "ValueError"))
          [] http = "ok" -> log(Ok(sent, resp))
          [] http = "not_json" -> log(Raise(sent, "JSONDecodeError"))
          [] http = "non2xx" -> log(Ok(sent, None))
          [] http = "unreachable" -> log(Raise(sent, "URLError"))

\* ApiClient.get(endpoint)
ApiClient_get(w, skip_a1111, http, resp) ==
    LET log(r) == [ r EXCEPT !.w.apilog =
                      Append(@, [method |-> "get",
                                 http |-> IF r.exc = "ValueError" THEN "unsent" ELSE http,
                                 ret |-> r.ret.tag, exc |-> r.exc]) ]
        sent == [ w EXCEPT !.urlopens = @ + 1 ]
    IN  IF skip_a1111 THEN Ok(w, None)
        ELSE CASE Request(w.base_url) # "none" -> log(Raise(w, "ValueError"))
               [] http = "ok" -> log(Ok(sent, resp))
               [] http = "not_json" -> log(Raise(sent, "JSONDecodeError"))
               [] http = "non2xx" -> log(Ok(sent, None))
               [] http = "unreachable" -> log(Raise(sent, "URLError"))

-----------------------------------------------------------------------------
(* StabDiffAuto1111.LayerLocal.  The world w is                             *)
(*   doc, disk, files, lc (the plug-in's layer_count), posts                *)
(* and, for observation only,                                               *)
(*   msgs    Gimp.message calls made by the commands' exception handlers    *)
(*   staged  the temporary files written                                    *)
(*   cleaned whether cleanup() has run                                      *)
(*   cnlog   one entry per get_control_net_params call                      *)
(*   apilog  one entry per ApiClient call                                   *)
(*   made    ResponseLayers.layers of the last materialization              *)
(*   probes  the outcomes of the urlopen calls of server_online             *)
(*   errs    the error dialogs run (new_dialog_error_user(...).run())       *)
(*   urlopens the urlopen calls of the ApiClient                            *)
(* and base_url, the ApiClient's.                                           *)

\* LayerLocal.__init__: the wrapper takes the next id of the plug-in.
LayerLocal_init(w) == [ w |-> [ w EXCEPT !.lc = @ + 1 ], id |-> w.lc ]

\* Writing the file at path: Gimp.file_save, or open(path, "wb+").
WriteFile(w, path) ==
    [ w EXCEPT !.disk = @ \cup { path }, !.staged = @ \cup { path } ]

\* LayerLocal.to_base64 / mask_to_base64 of the wrapper with this id: the
\* file name goes to a TempFiles object made on the spot, Gimp.file_save
\* writes the file when saved is TRUE, and open() raises when there is no file.
LayerLocal_encode(w, stem, id, saved) ==
    LET got == TempFiles_get(<< >>, stem, id)
        w1 == IF saved THEN WriteFile(w, got.path) ELSE w
    IN  IF got.path \in w1.disk THEN Ok(w1, PyStr("b64"))
        ELSE Raise(w1, "FileNotFoundError")

LayerLocal_to_base64(w, id, saved) == LayerLocal_encode(w, "layer", id, saved)

LayerLocal_mask_to_base64(w, id, saved) == LayerLocal_encode(w, "mask", id, saved)

\* LayerLocal.from_base64(plugin, image, base64_data): the decoded bytes are
\* written to the plug-in's "generated.png" and loaded as a layer.
LayerLocal_from_base64(w, width, height) ==
    LET got == TempFiles_get(w.files, "generated", 0)
        w1 == WriteFile([ w EXCEPT !.files = got.files ], got.path)
        made == LayerLocal_init(w1)
    IN  [ w |-> made.w,
          layer |-> [ lid |-> made.id, kind |-> "loaded", w |-> width, h |-> height,
                      meta |-> NoMeta, mask |-> FALSE ] ]

\* LayerLocal.resize_to_multiple_of(multiple)
LayerLocal_resize_to_multiple_of(layer, multiple) ==
    [ layer EXCEPT !.w = round_to_multiple(layer.w, multiple),
                   !.h = round_to_multiple(layer.h, multiple) ]

\* get_layer_as_base64(layer): a copy of the layer is inserted, encoded and
\* removed.
get_layer_as_base64(w, layer, saved) ==
    LET wrapped == LayerLocal_init(w)                       \* LayerLocal(self, layer)
        copied == LayerLocal_init(wrapped.w)                \* .copy()
        copy == [ layer EXCEPT !.lid = copied.id, !.kind = "copy" ]
        w1 == [ copied.w EXCEPT !.doc = InsertLayer(@, copy) ]  \* .insert()
    IN  Bind(LayerLocal_to_base64(w1, copied.id, saved), LAMBDA enc :
            IF enc.exc # "none" THEN enc
            ELSE Ok([ enc.w EXCEPT !.doc = RemoveLayer(@, copied.id) ], enc.ret))

\* get_layer_mask_as_base64(layer): the selection as a mask when there is a
\* selection, else the layer's own mask, else "".
get_layer_mask_as_base64(w, layer, selection, saved) ==
    IF selection # "none"
    THEN LET created == LayerLocal_init(w)                  \* LayerLocal.create
             tmp == [ lid |-> created.id, kind |-> "mask", w |-> ImageSize[1],
                      h |-> ImageSize[2], meta |-> NoMeta, mask |-> TRUE ]
             w1 == [ created.w EXCEPT !.doc = InsertLayer(@, tmp) ]
         IN  Bind(LayerLocal_mask_to_base64(w1, created.id, saved), LAMBDA enc :
                 IF enc.exc # "none" THEN enc
                 ELSE Ok([ enc.w EXCEPT !.doc = RemoveLayer(@, created.id) ], enc.ret))
    ELSE IF layer.mask
    THEN Raise(w, "AttributeError")                         \* type(mask_perhaps).name
    ELSE Ok(w, PyStr(""))

get_active_layer_as_base64(w, saved) == get_layer_as_base64(w, Head(w.doc), saved)

get_active_mask_as_base64(w, selection, saved) ==
    get_layer_mask_as_base64(w, Head(w.doc), selection, saved)

\* get_selection_bounds(): << x, y, width, height >>
get_selection_bounds(selection) ==
    IF selection = "part" THEN << 8, 8, PartSize[1], PartSize[2] >>
    ELSE << 0, 0, ImageSize[1], ImageSize[2] >>

\* The layer a cn_layer argument names: a Gimp.Layer of the image.
LayerOf(d, lid) == (CHOOSE i \in 1..Len(d) : d[i].lid = lid)

\* get_control_net_params(cn_layer): the layer's metadata (or the defaults)
\* with the base64 of a duplicate resized to multiples of 64, and of the
\* duplicate's mask when the layer has one.
get_control_net_params(w, cn_layer, saved, mask_saved) ==
    IF ~Truthy(cn_layer) THEN Ok(w, None)
    ELSE IF cn_layer.tag # "layer" THEN Raise(w, "ValueError")
    ELSE
    LET before == w.doc
        src == w.doc[LayerOf(w.doc, cn_layer.lid)]
        wrapped == LayerLocal_init(w)                       \* LayerLocal(self, cn_layer)
        copied == LayerLocal_init(wrapped.w)                \* layer.copy()
        copy == LayerLocal_resize_to_multiple_of(
                    [ src EXCEPT !.lid = copied.id, !.kind = "copy" ], 64)
        w1 == [ copied.w EXCEPT !.doc = InsertLayer(@, copy) ]
        logged(r) == [ r EXCEPT !.w.cnlog =
                         Append(@, [before |-> before, after |-> r.w.doc, exc |-> r.exc]) ]
    IN  Bind(LayerLocal_to_base64(w1, copied.id, saved), LAMBDA enc :
        Bind(IF enc.exc = "none" /\ src.mask
             THEN LayerLocal_mask_to_base64(enc.w, copied.id, mask_saved)
             ELSE enc, LAMBDA menc :
            IF menc.exc # "none" THEN logged(menc)
            ELSE logged(Ok([ menc.w EXCEPT !.doc = RemoveLayer(@, copied.id) ],  \* layer64.remove()
                           [tag |-> "unit", module |-> src.meta.tag, mask |-> src.mask,
                            w |-> copy.w, h |-> copy.h]))))

-----------------------------------------------------------------------------
(* StabDiffAuto1111.ResponseLayers.  A response is None or                  *)
(*   [tag |-> "json", infoOk, images, seeds, infotexts, w, h]:              *)
(* whether response["info"] parses, the lengths of response["images"],      *)
(* info["all_seeds"] and info["infotexts"], and the size of the images.     *)
(* options is [has_skip, skip]: whether the dict has the key                *)
(* "skip_annotator_layers", and its value.                                  *)

\* The loop of ResponseLayers.__init__ from image number index on.  An
\* exception raised in the loop ends it: the except clause logs it.
RECURSIVE ResponseLayers_loop(_, _, _, _)
ResponseLayers_loop(w, response, options, index) ==
    IF index >= response.images THEN w
    ELSE IF index < response.seeds
    THEN IF index >= response.infotexts THEN w              \* infotexts[index]: IndexError
         ELSE Bind(LayerLocal_from_base64(w, response.w, response.h), LAMBDA loaded :
              Bind([ loaded.layer EXCEPT !.kind = "generated", !.meta = ProvMeta(index) ],
                   LAMBDA layer :
              Bind([ loaded.w EXCEPT !.doc = InsertLayer(@, layer),
                                     !.made = Append(@, layer.lid) ], LAMBDA w1 :
                  ResponseLayers_loop(w1, response, options, index + 1))))
    ELSE IF options.has_skip /\ ~Truthy(options.skip)
    THEN Bind(LayerLocal_from_base64(w, response.w, response.h), LAMBDA loaded :
         Bind([ loaded.layer EXCEPT !.kind = "annotator" ], LAMBDA layer :
         Bind([ loaded.w EXCEPT !.doc = InsertLayer(@, layer),
                                !.made = Append(@, layer.lid) ], LAMBDA w1 :
             ResponseLayers_loop(w1, response, options, index + 1))))
    ELSE w                                                  \* None.layer: AttributeError

\* A materializer that reads the skip flag the wrong way round.
ResponseLayers_init_inverted(w, response, options) ==
    LET w0 == [ w EXCEPT !.made = << >> ]
        flipped == [ options EXCEPT !.skip = PyBool(~Truthy(@)) ]
    IN  IF response.tag # "json" THEN w0
        ELSE IF ~response.infoOk THEN w0
        ELSE ResponseLayers_loop(w0, response, flipped, 0)

\* ResponseLayers.__init__(plugin, img, response, options)
ResponseLayers_init(w, response, options) ==
    LET w0 == [ w EXCEPT !.made = << >> ]
    IN  IF response.tag # "json" THEN w0                    \* None["info"]: TypeError
        ELSE IF ~response.infoOk THEN w0                    \* json.loads / KeyError
        ELSE ResponseLayers_loop(w0, response, options, 0)

\* ResponseLayers.resize(width, height)
ResponseLayers_resize(w, width, height) ==
    [ w EXCEPT !.lc = @ + Len(w.made),
               !.doc = ScaleLayers(@, Range(w.made), width, height) ]

\* ResponseLayers.translate(offset), offset a pair
ResponseLayers_translate(w) == [ w EXCEPT !.lc = @ + Len(w.made) ]

\* ResponseLayers.add_selection_as_mask()
ResponseLayers_add_selection_as_mask(w, selection) ==
    IF selection # "part" THEN w
    ELSE [ w EXCEPT !.lc = @ + Len(w.made), !.doc = MaskLayers(@, Range(w.made)) ]

-----------------------------------------------------------------------------
(* The generation commands.  Arguments a:                                   *)
(*   width, height, batch_size, seed, cn1_enabled, cn1_layer, cn2_enabled,  *)
(*   cn2_layer, skip                                                        *)
(* What the environment does during the call, e:                            *)
(*   http, resp     the outcome of the HTTP exchange and the JSON answered  *)
(*   save           whether Gimp.file_save writes the active layer's copy   *)
(*   cn_save        ... a control unit's duplicate                          *)
(*   cn_mask_save   ... a control unit's mask                               *)
(*   mask_save      ... the inpainting mask                                 *)
(*   sel, cwd       the selection and the working directory                 *)

\* cleanup(): the listed temporary files are removed.
cleanup(w, wd) ==
    [ w EXCEPT !.disk = TempFiles_remove_all(w.files, w.disk, wd), !.cleaned = TRUE ]

\* A batch size that is capped above only.
BatchSize_capped(batch_size) == Min(MAX_BATCH_SIZE, batch_size)

\* "batch_size": min(MAX_BATCH_SIZE, max(1, batch_size))
BatchSize(batch_size) == Min(MAX_BATCH_SIZE, Max(1, batch_size))

\* A seed that is replaced only when it is None.
Seed_if_none(seed) == IF seed.tag = "None" THEN PyInt(-1) ELSE seed

\* "seed": seed or -1
Seed(seed) == IF Truthy(seed) THEN seed ELSE PyInt(-1)

\* The fields the three request bodies share.
RequestData(endpoint, a) ==
    [ endpoint |-> endpoint,
      width |-> round_to_multiple(a.width, 8),
      height |-> round_to_multiple(a.height, 8),
      batch_size |-> BatchSize(a.batch_size),
      seed |-> Seed(a.seed),
      init_images |-> FALSE, mask |-> FALSE,
      scripts |-> FALSE, units |-> << >> ]

\* controlnet_units: the units of the enabled control layers, in order.
ControlNetUnits(w, a, e) ==
    Bind(IF Truthy(a.cn1_enabled)
         THEN get_control_net_params(w, a.cn1_layer, e.cn_save, e.cn_mask_save)
         ELSE Ok(w, None), LAMBDA u1 :
        IF u1.exc # "none" THEN u1
        ELSE Bind(IF Truthy(a.cn2_enabled)
                  THEN get_control_net_params(u1.w, a.cn2_layer, e.cn_save, e.cn_mask_save)
                  ELSE Ok(u1.w, None), LAMBDA u2 :
                 IF u2.exc # "none" THEN u2
                 ELSE Ok(u2.w, (IF Truthy(a.cn1_enabled) THEN << u1.ret >> ELSE << >>)
                               \o (IF Truthy(a.cn2_enabled) THEN << u2.ret >> ELSE << >>))))

\* The try block of a generation command up to the response: the control
\* units are collected, the request is posted, the layers are made.
Generate(w, a, e, data) ==
    Bind(ControlNetUnits(w, a, e), LAMBDA units :
        IF units.exc # "none" THEN units
        ELSE Bind(ApiClient_post(units.w,
                                 IF Len(units.ret) > 0
                                 THEN [ data EXCEPT !.scripts = TRUE, !.units = units.ret ]
                                 ELSE data,
                                 e.http, e.resp), LAMBDA posted :
                 IF posted.exc # "none" THEN posted
                 ELSE Bind(ResponseLayers_init(posted.w, posted.ret,
                                               [ has_skip |-> TRUE, skip |-> a.skip ]),
                           LAMBDA made : Ok(made, None))))

\* except Exception: Gimp.message(repr(ex)); finally: cleanup()
Finish(tried, e) ==
    Bind(tried, LAMBDA t :
        Ok(cleanup(IF t.exc # "none" THEN [ t.w EXCEPT !.msgs = @ + 1 ] ELSE t.w, e.cwd),
           None))

\* text_to_image(...)
text_to_image(w, a, e) ==
    LET b == get_selection_bounds(e.sel)
        data == RequestData("/sdapi/v1/txt2img", a)
    IN  Bind(Generate(w, a, e, data), LAMBDA tried :
            IF tried.exc # "none" THEN Finish(tried, e)
            ELSE Bind(ResponseLayers_resize(tried.w, b[3], b[4]), LAMBDA resized :
                 Bind(ResponseLayers_translate(resized), LAMBDA moved :
                     Finish(Ok(ResponseLayers_add_selection_as_mask(moved, e.sel), None), e))))

\* image_to_image(...)
image_to_image(w, a, e) ==
    IF Truthy(a.cn1_enabled) /\ a.cn1_layer.tag # "layer" THEN Raise(w, "TypeError")
    ELSE IF Truthy(a.cn2_enabled) /\ a.cn2_layer.tag # "layer" THEN Raise(w, "TypeError")
    ELSE
    LET b == get_selection_bounds(e.sel)
        data == [ RequestData("/sdapi/v1/img2img", a) EXCEPT !.init_images = TRUE ]
    IN  Bind(get_active_layer_as_base64(w, e.save), LAMBDA init :
            IF init.exc # "none" THEN init
            ELSE Bind(Generate(init.w, a, e, data), LAMBDA tried :
                     IF tried.exc # "none" THEN Finish(tried, e)
                     ELSE Finish(Ok(ResponseLayers_resize(tried.w, b[3], b[4]), None), e)))

\* inpainting(...)
inpainting(w, a, e) ==
    LET data == [ RequestData("/sdapi/v1/img2img", a) EXCEPT !.init_images = TRUE,
                                                             !.mask = TRUE ]
    IN  Bind(get_active_layer_as_base64(w, e.save), LAMBDA init :
            IF init.exc # "none" THEN init
            ELSE Bind(get_active_mask_as_base64(init.w, e.sel, e.mask_save), LAMBDA mask :
                     IF mask.exc # "none" THEN mask
                     ELSE IF mask.ret = PyStr("") THEN Raise(mask.w, "Exception")
                     ELSE Bind(Generate(mask.w, a, e, data), LAMBDA tried :
                              IF tried.exc # "none" THEN Finish(tried, e)
                              ELSE Finish(Ok(ResponseLayers_resize(tried.w, ImageSize[1],
                                                                   ImageSize[2]), None), e))))

-----------------------------------------------------------------------------
(* The state of the plug-in process and of GIMP, as a world and back *)

World ==
    [ doc |-> doc, disk |-> disk, files |-> files, lc |-> layer_count, posts |-> posts,
      msgs |-> 0, staged |-> {}, cleaned |-> FALSE, cnlog |-> << >>, apilog |-> << >>,
      made |-> << >>, probes |-> << >>, errs |-> 0, urlopens |-> 0,
      base_url |-> base_url ]

\* The variables a handler's world is stored to.
Store(w) ==
    /\ doc' = w.doc
    /\ disk' = w.disk
    /\ files' = w.files
    /\ layer_count' = w.lc
    /\ posts' = w.posts

\* The arguments of a generation command that decide its request body's
\* batch_size, seed and control units; NoGiven for any other handler.
NoGiven == [ batch_size |-> 1, seed |-> None, cn1_enabled |-> FALSE, cn2_enabled |-> FALSE ]

Given(a) ==
    IF "batch_size" \in DOMAIN a
    THEN [ batch_size |-> a.batch_size, seed |-> a.seed,
           cn1_enabled |-> Truthy(a.cn1_enabled), cn2_enabled |-> Truthy(a.cn2_enabled) ]
    ELSE NoGiven

\* What a handler did: the exception that left it, the Gimp.message calls,
\* the files staged, whether cleanup() ran, the control-unit and API calls,
\* the layers made, and the document before the handler.
Trace(op, r, a, e) ==
    [ op |-> op, exc |-> r.exc, msgs |-> r.w.msgs, staged |-> r.w.staged,
      cleaned |-> r.w.cleaned, cnlog |-> r.w.cnlog, apilog |-> r.w.apilog,
      made |-> r.w.made, skip |-> a.skip, resp |-> e.resp, before |-> doc,
      probes |-> r.w.probes, errs |-> r.w.errs, given |-> Given(a),
      urlopens |-> r.w.urlopens ]

NoResponse == [ tag |-> "json", infoOk |-> FALSE, images |-> 0, seeds |-> 0,
                infotexts |-> 0, w |-> 0, h |-> 0 ]

NoLast ==
    [ op |-> "none", exc |-> "none", msgs |-> 0, staged |-> {}, cleaned |-> FALSE,
      cnlog |-> << >>, apilog |-> << >>, made |-> << >>, skip |-> None,
      resp |-> None, before |-> << >>, probes |-> << >>, errs |-> 0, given |-> NoGiven,
      urlopens |-> 0 ]

NoDims == [ width |-> 0, height |-> 0, sent |-> << 0, 0 >>, unit |-> << 0, 0 >> ]

-----------------------------------------------------------------------------
(* What the callers and the environment can hand to the operations *)

\* The layer the image has when the plug-in starts.
BaseLayer(meta, mask) ==
    [ lid |-> 0, kind |-> "orig", w |-> ImageSize[1], h |-> ImageSize[2],
      meta |-> meta, mask |-> mask ]

BaseLayerRef == [ tag |-> "layer", lid |-> 0 ]

\* The JSON answers of the provider: images, seeds and infotexts of up to
\* MaxImages entries, and an answer whose "info" does not parse.
Responses ==
    { [ tag |-> "json", infoOk |-> TRUE, images |-> n, seeds |-> k, infotexts |-> l,
        w |-> 64, h |-> 64 ] : n \in 0..MaxImages, k \in 0..MaxImages, l \in 0..MaxImages }
    \cup { NoResponse }

Exchanges ==
    { [ http |-> "ok", resp |-> r ] : r \in Responses }
    \cup { [ http |-> h, resp |-> None ] : h \in HttpOutcomes \ { "ok" } }

\* The file Gimp.file_save fails to write, if any.
SaveCases == { "none", "layer", "cn", "cn_mask", "mask" }

Env(x, f, selection, wd) ==
    [ http |-> x.http, resp |-> x.resp,
      save |-> f # "layer", cn_save |-> f # "cn", cn_mask_save |-> f # "cn_mask",
      mask_save |-> f # "mask", sel |-> selection, cwd |-> wd ]

OpArgs ==
    [ width : { 100 }, height : { 60 }, batch_size : { 1 }, seed : { PyInt(-1) },
      cn1_enabled : { PyBool(TRUE), PyBool(FALSE), None },
      cn1_layer : { None, PyInt(3), BaseLayerRef },
      cn2_enabled : { PyBool(FALSE), PyBool(TRUE) },
      cn2_layer : { BaseLayerRef },
      skip : { PyBool(TRUE), PyBool(FALSE), None } ]

-----------------------------------------------------------------------------
(* MyShelf, the settings kept in stable_diffusion_auto1111.json *)

ValidApiBase == "http://127.0.0.1:7860"

ShelfKeys == { "api_base", "prompt", "sd_model_checkpoint" }

ShelfValues(k) ==
    CASE k = "api_base" -> { PyStr(ValidApiBase), PyStr("") }
      [] k = "prompt" -> { PyStr(""), PyStr("cat") }
      [] k = "sd_model_checkpoint" -> { None, PyInt(1), PyStr("v1-5-pruned") }

\* The Python dicts over the keys of the model.
Mappings ==
    UNION { { f \in [ K -> UNION { ShelfValues(k) : k \in ShelfKeys } ] :
                \A k \in K : f[k] \in ShelfValues(k) } : K \in SUBSET ShelfKeys }

Dict(m) == [ tag |-> "dict", m |-> m ]

\* StabDiffAuto1111.STABLE_DIFF_AUTO1111_DEFAULT_SETTINGS, as the class
\* statement makes it.
STABLE_DIFF_AUTO1111_DEFAULT_SETTINGS ==
    [ api_base |-> PyStr(ValidApiBase), prompt |-> PyStr(""), sd_model_checkpoint |-> None ]

\* dict.update(x)
Update(d, x) ==
    [ k \in DOMAIN d \cup DOMAIN x |-> IF k \in DOMAIN x THEN x[k] ELSE d[k] ]

\* The values json.load can return: an object, or null, a list, a number.
JsonValues ==
    { Dict(m) : m \in Mappings }
    \cup { None, PyInt(7), [ tag |-> "list", v |-> << >> ],
           [ tag |-> "list", v |-> << "api_base" >> ] }

\* What the settings file can hold: no file, text that is not JSON (nothing,
\* the beginning of a document, anything else), or a JSON document.
NoFile == [ tag |-> "absent" ]
Text(t) == [ tag |-> "text", v |-> t ]
FileContents ==
    { NoFile, Text("empty"), Text("partial"), Text("garbage") }
    \cup { [ tag |-> "json", v |-> j ] : j \in JsonValues }

\* json.dump(value, f, indent=2, sort_keys=True): the document written.
json_dump(value) == [ tag |-> "json", v |-> value ]

\* json.load(f): the value of the document, or json.JSONDecodeError.
json_load(content) ==
    IF content.tag = "json" THEN content.v ELSE [ tag |-> "JSONDecodeError" ]

\* A MyShelf s is [file, data, alias, defaults]: the file at file_path,
\* self.data, whether self.data is the default_shelf object itself, and what
\* that object holds.
SetData(s, value) ==
    IF s.alias THEN [ s EXCEPT !.data = value, !.defaults = value.m ]
    ELSE [ s EXCEPT !.data = value ]

\* A load whose errors are not caught.
MyShelf_load_unguarded(s, readable) ==
    LET d == [ s EXCEPT !.data = Dict(s.defaults), !.alias = TRUE ]
    IN  IF d.file.tag = "absent" THEN Ok(d, None)
        ELSE IF ~readable THEN Raise(d, "PermissionError")
        ELSE IF json_load(d.file).tag = "JSONDecodeError" THEN Raise(d, "JSONDecodeError")
        ELSE Ok([ d EXCEPT !.data = json_load(d.file), !.alias = FALSE ], None)

\* MyShelf.load(default_shelf)
MyShelf_load(s, readable) ==
    LET d == [ s EXCEPT !.data = Dict(s.defaults), !.alias = TRUE ]
    IN  IF d.file.tag = "absent" THEN Ok(d, None)
        ELSE IF ~readable THEN Ok(d, None)
        ELSE IF json_load(d.file).tag = "JSONDecodeError" THEN Ok(d, None)
        ELSE Ok([ d EXCEPT !.data = json_load(d.file), !.alias = FALSE ], None)

\* MyShelf.__init__(default_shelf)
MyShelf_init(file, readable) ==
    MyShelf_load([ file |-> file, data |-> None, alias |-> FALSE,
                   defaults |-> STABLE_DIFF_AUTO1111_DEFAULT_SETTINGS ], readable)

\* MyShelf.save(data) interrupted at a point: "no" (it returns), "updated"
\* (before open), "truncated" (after open(file_path, "w")), "partial" (in
\* json.dump) or "written" (after the file is closed).  Every exception is
\* caught and logged.
MyShelf_save(s, data, writable, crash) ==
    IF s.data.tag # "dict" THEN Ok(s, None)
    ELSE Bind(SetData(s, Dict(Update(s.data.m, data))), LAMBDA u :
           IF crash = "updated" THEN Ok(u, None)
           ELSE IF ~writable THEN Ok(u, None)
           ELSE IF crash = "truncated" THEN Ok([ u EXCEPT !.file = Text("empty") ], None)
           ELSE IF crash = "partial" THEN Ok([ u EXCEPT !.file = Text("partial") ], None)
           ELSE Ok([ u EXCEPT !.file = json_dump(u.data) ], None))

\* MyShelf.get(name, default_value)
MyShelf_get(s, name, default_value) ==
    CASE s.data.tag = "dict" ->
           IF name \in DOMAIN s.data.m THEN Ok(s, s.data.m[name]) ELSE Ok(s, default_value)
      [] s.data.tag = "list" ->
           IF name \in Range(s.data.v) THEN Raise(s, "TypeError") ELSE Ok(s, default_value)
      [] OTHER -> Raise(s, "TypeError")

\* MyShelf.set(name, default_value)
MyShelf_set(s, name, default_value, writable) ==
    IF s.data.tag # "dict" THEN Raise(s, "TypeError")
    ELSE Bind(SetData(s, Dict(Update(s.data.m, [ k \in { name } |-> default_value ]))),
              LAMBDA u : MyShelf_save(u, [ k \in {} |-> None ], writable, "no"))

\* StabDiffAuto1111.config(prompt, negative_prompt, url)
config(s, prompt, url, writable) ==
    MyShelf_save(s, [ prompt |-> prompt, api_base |-> url ], writable, "no")

\* settings.get("models"): the titles of the provider's checkpoints.
ModelTitles == << "v1-5-pruned", "sd_xl_base" >>

\* The index equip_widgets_checkpoint makes active in its combo box:
\* models.index(sd_model_checkpoint), or 0 when the value is not in the list.
checkpoints_index(models, sd_model_checkpoint) ==
    IF sd_model_checkpoint.tag = "str"
       /\ \E i \in 1..Len(models) : models[i] = sd_model_checkpoint.v
    THEN (CHOOSE i \in 1..Len(models) : models[i] = sd_model_checkpoint.v) - 1
    ELSE 0

\* The sd_model_checkpoint a MyShelf's data holds.
Checkpoint(data) ==
    IF data.tag = "dict" /\ "sd_model_checkpoint" \in DOMAIN data.m
    THEN data.m["sd_model_checkpoint"]
    ELSE [ tag |-> "missing" ]

\* Whether StabDiffAuto1111.change_model(model_index) gets to its
\* settings.set(...): available is whether the plug-in has its ApiClient and
\* self.models[model_index] exists, http the outcome of the POST (post raises
\* when the server is unreachable or the answer is not JSON).
change_model_sets(s, model_index, available, http) ==
    /\ MyShelf_get(s, "model", None).exc = "none"
    /\ MyShelf_get(s, "model", None).ret # PyInt(model_index)
    /\ available
    /\ http \in { "ok", "non2xx" }

\* StabDiffAuto1111.change_model(model_index)
change_model(s, model_index, available, http, writable) ==
    IF MyShelf_get(s, "model", None).exc # "none" THEN MyShelf_get(s, "model", None)
    ELSE IF ~change_model_sets(s, model_index, available, http) THEN Ok(s, None)
    ELSE Bind(MyShelf_set(s, "sd_model_checkpoint", PyInt(model_index), writable),
              LAMBDA r : Ok(r.w, None))

\* The shelf of a process that has not made it, and the last operation.
NoShelfOp == [ name |-> "none", exc |-> "none", before |-> NoFile, new |-> NoFile,
               saved |-> None, readable |-> TRUE, sets |-> FALSE,
               http |-> "none", was |-> None ]

NoShelf ==
    [ pc |-> "none", file |-> NoFile, data |-> None, alias |-> FALSE,
      defaults |-> STABLE_DIFF_AUTO1111_DEFAULT_SETTINGS, saved |-> None,
      op |-> NoShelfOp ]

-----------------------------------------------------------------------------
(* StabDiffAuto1111.LayerData, the metadata kept in a layer's parasite *)

LayerKeys == { "seed", "module" }

List(s) == [ tag |-> "list", v |-> s ]
Tuple(s) == [ tag |-> "tuple", v |-> s ]

\* The values of a dict handed to save: JSON values, and a tuple, which
\* Python has and JSON has not.
LayerValues ==
    { None, PyInt(7), PyStr("canny"), List(<< PyInt(1) >>), Tuple(<< PyInt(1) >>),
      Dict([ seed |-> PyInt(7) ]), Dict([ seed |-> Tuple(<< PyInt(1) >>) ]) }

LayerDicts ==
    UNION { { Dict(m) : m \in [ K -> LayerValues ] } : K \in SUBSET LayerKeys }

\* Whether a Python value is what json.loads can return: no tuple in it.
RECURSIVE IsJson(_)
IsJson(x) ==
    CASE x.tag = "tuple" -> FALSE
      [] x.tag = "list" -> \A i \in 1..Len(x.v) : IsJson(x.v[i])
      [] x.tag = "dict" -> \A k \in DOMAIN x.m : IsJson(x.m[k])
      [] OTHER -> TRUE

\* The defaults handed to LayerData: none (an empty dict), or a dict like
\* CONTROLNET_DEFAULT_SETTINGS.
LayerDefaults == { Dict([ k \in {} |-> None ]), Dict([ module |-> PyStr("none") ]) }

\* The JSON value json.dumps writes for a Python value: a tuple is written
\* as an array, the keys of a dict as strings.
RECURSIVE ToJson(_)
ToJson(x) ==
    CASE x.tag = "tuple" -> List([ i \in 1..Len(x.v) |-> ToJson(x.v[i]) ])
      [] x.tag = "list" -> List([ i \in 1..Len(x.v) |-> ToJson(x.v[i]) ])
      [] x.tag = "dict" -> Dict([ k \in DOMAIN x.m |-> ToJson(x.m[k]) ])
      [] OTHER -> x

\* json.dumps(data, sort_keys=True, indent=2): the document as a str
json_dumps(data) == [ tag |-> "json", v |-> ToJson(data) ]

\* json.loads(data_string)
json_loads(data_string) ==
    IF data_string.tag = "json" THEN data_string.v ELSE [ tag |-> "JSONDecodeError" ]

\* sd_gui_utils.as_strings_deeply(data): a str and anything that is not a
\* dict is returned as it is; a dict is rebuilt with str(k) keys (the keys of
\* the model are strings) and its values converted.
RECURSIVE as_strings_deeply(_)
as_strings_deeply(data) ==
    IF data.tag \in { "str", "json" } THEN data
    ELSE IF data.tag # "dict" THEN data
    ELSE Dict([ k \in DOMAIN data.m |-> as_strings_deeply(data.m[k]) ])

\* Gimp.Parasite.new(name, flags, data=list(p_data.encode('utf-8'))), and
\* bytes(parasite.get_data()).decode('utf-8')
Parasite(p_data) == [ tag |-> "parasite", data |-> p_data ]

\* A value in an object of its own (dict.copy(), a dict that json.loads or
\* as_strings_deeply built): alias says whether it is the defaults object.
Copied(value) == [ data |-> value, alias |-> FALSE ]

\* A LayerData.load that lays the parasite's data over the defaults.
LayerData_load_merged(parasite, defaults) ==
    IF parasite.tag = "None" THEN Ok(Copied(as_strings_deeply(defaults)), None)
    ELSE Bind(json_loads(parasite.data), LAMBDA data :
           IF data.tag = "JSONDecodeError" THEN Raise(Copied(None), "JSONDecodeError")
           ELSE IF data.tag # "dict" THEN Ok(Copied(data), None)
           ELSE Ok(Copied(Dict(Update(defaults.m, data.m))), None))

\* LayerData.load(): the result is [w, ret, exc] with w the new self.data:
\* self.defaults.copy() or the parasite's document, through as_strings_deeply.
LayerData_load(parasite, defaults) ==
    IF parasite.tag = "None" THEN Ok(Copied(as_strings_deeply(defaults)), None)
    ELSE Bind(json_loads(parasite.data), LAMBDA data :
           IF data.tag = "JSONDecodeError" THEN Raise(Copied(None), "JSONDecodeError")
           ELSE Ok(Copied(as_strings_deeply(data)), None))

\* LayerData.save(data): the parasite attached to the layer.
LayerData_save(data) == Parasite(as_strings_deeply(json_dumps(data)))

\* LayerLocal.save_data(data): LayerData(self.layer).save(data); the
\* constructor loads what the layer has.
LayerLocal_save_data(parasite, data) ==
    Bind(LayerData_load(parasite, Dict([ k \in {} |-> None ])), LAMBDA made :
        IF made.exc # "none" THEN Raise(parasite, made.exc)
        ELSE Ok(LayerData_save(data), None))

\* LayerLocal.load_data(default_data): LayerData(self.layer, default_data).data.copy()
LayerLocal_load_data(parasite, default_data) ==
    Bind(LayerData_load(parasite, default_data), LAMBDA made :
        IF made.exc # "none" THEN made
        ELSE IF made.w.data.tag \notin { "dict", "list" } THEN Raise(made.w, "AttributeError")
        ELSE Ok(Copied(made.w.data), made.w.data))

\* The layer's parasite (None when it has none), the defaults object handed
\* to the last load as it was then (given) and as it is now (defaults), the
\* dict that load returned as it is now, whether it is the defaults object
\* itself, the dict last saved, and the last operation.
NoLayerData ==
    [ parasite |-> None, given |-> None, defaults |-> None, loaded |-> None,
      alias |-> FALSE, saved |-> None, op |-> "none", exc |-> "none" ]

-----------------------------------------------------------------------------
(* The operations called one at a time: SpecOps *)

InitCommon ==
    /\ disk = {}
    /\ files = << >>
    /\ layer_count = 1
    /\ posts = << >>
    /\ pc = "start"
    /\ cmd = "none"
    /\ dialog = "none"
    /\ widgets = None
    /\ responses = None
    /\ retval = "none"
    /\ applies = 0
    /\ last = NoLast
    /\ dims = NoDims
    /\ layer_data = NoLayerData

InitOps ==
    /\ InitCommon
    /\ \E meta \in { NoMeta, CnMeta }, mask \in BOOLEAN : doc = << BaseLayer(meta, mask) >>
    /\ sel \in { "none", "part", "all" }
    /\ cwd \in { TmpDir, "home" }
    /\ settings = [ cn_models |-> 0, api_base |-> "http://127.0.0.1:7860" ]
    /\ shelf = NoShelf
    /\ is_server_running = FALSE
    /\ base_url = ValidApiBase

Returned(op, r, a, e) ==
    /\ Store(r.w)
    /\ last' = Trace(op, r, a, e)
    /\ pc' = "done"
    /\ UNCHANGED << sel, cwd, is_server_running, cmd, dialog, widgets, responses,
                    retval, applies, dims, settings, shelf, base_url, layer_data >>

CallTextToImage ==
    /\ pc = "start"
    /\ \E a \in OpArgs, x \in Exchanges, f \in SaveCases :
         LET e == Env(x, f, sel, cwd)
         IN  \E r \in { text_to_image(World, a, e) } : Returned("text_to_image", r, a, e)

CallImageToImage ==
    /\ pc = "start"
    /\ \E a \in OpArgs, x \in Exchanges, f \in SaveCases :
         LET e == Env(x, f, sel, cwd)
         IN  \E r \in { image_to_image(World, a, e) } : Returned("image_to_image", r, a, e)

CallInpainting ==
    /\ pc = "start"
    /\ \E a \in OpArgs, x \in Exchanges, f \in SaveCases :
         LET e == Env(x, f, sel, cwd)
         IN  \E r \in { inpainting(World, a, e) } : Returned("inpainting", r, a, e)

CallControlNetParams ==
    /\ pc = "start"
    /\ \E cn_layer \in { None, PyInt(3), BaseLayerRef }, f \in SaveCases :
         LET e == Env([ http |-> "ok", resp |-> None ], f, sel, cwd)
         IN  \E r \in { get_control_net_params(World, cn_layer, e.cn_save, e.cn_mask_save) } :
                 Returned("get_control_net_params", r, [ skip |-> None ], e)

CallPost ==
    /\ pc = "start"
    /\ \E x \in Exchanges :
         \E r \in { ApiClient_post(World, [ endpoint |-> "/sdapi/v1/options" ],
                                    x.http, x.resp) } :
             Returned("post", r, [ skip |-> None ], x)

CallGet ==
    /\ pc = "start"
    /\ \E x \in Exchanges, skip_a1111 \in BOOLEAN :
         \E r \in { ApiClient_get(World, skip_a1111, x.http, x.resp) } :
             Returned("get", r, [ skip |-> None ], x)

NextOps ==
    \/ CallTextToImage
    \/ CallImageToImage
    \/ CallInpainting
    \/ CallControlNetParams
    \/ CallPost
    \/ CallGet

SpecOps == InitOps /\ [][NextOps]_vars

-----------------------------------------------------------------------------
(* The rounding of sizes: SpecRound *)

Sizes == (0 - RoundMax)..RoundMax

InitRound ==
    /\ InitCommon
    /\ doc = << BaseLayer(NoMeta, FALSE) >>
    /\ sel = "none"
    /\ cwd = "home"
    /\ settings = [ cn_models |-> 0, api_base |-> "http://127.0.0.1:7860" ]
    /\ shelf = NoShelf
    /\ is_server_running = FALSE
    /\ base_url = ValidApiBase

\* A width and a height reach a generation command and a control unit's layer.
RoundSizes ==
    /\ pc = "start"
    /\ \E width \in Sizes, height \in Sizes :
         LET data == RequestData("/sdapi/v1/txt2img",
                                 [ width |-> width, height |-> height, batch_size |-> 1,
                                   seed |-> None ])
             layer64 == LayerLocal_resize_to_multiple_of(
                            [ BaseLayer(NoMeta, FALSE) EXCEPT !.w = width, !.h = height ], 64)
         IN  dims' = [ width |-> width, height |-> height,
                       sent |-> << data.width, data.height >>,
                       unit |-> << layer64.w, layer64.h >> ]
    /\ pc' = "done"
    /\ UNCHANGED << doc, sel, disk, cwd, files, layer_count, posts, is_server_running,
                    cmd, dialog, widgets, responses, retval, applies, last, settings, shelf, base_url, layer_data >>

SpecRound == InitRound /\ [][RoundSizes]_vars

-----------------------------------------------------------------------------
(* The commands GIMP runs and their dialogs: Spec *)

GenerationCommands == { "text2img", "img2img", "inpainting" }

Commands == GenerationCommands \cup { "controlnet_layer", "config" }

\* sd_gui_utils.val_widget(a_widget), by the widget's class
val_widget(kind, value) ==
    CASE kind = "LayerComboBox" -> PyInt(value)
      [] kind = "ComboBox" -> PyInt(value)
      [] kind = "Entry" -> PyStr(value)
      [] kind = "Scale" -> PyInt(value)
      [] kind = "TextView" -> PyStr(value)
      [] kind = "ToggleButton" -> PyBool(value)
      [] OTHER -> None

\* What the widgets of a new dialog show: the settings' values, nothing
\* ticked, the first layer chosen.
NewWidgets ==
    [ width |-> 512, height |-> 512, batch_size |-> 1, seed |-> "-1",
      cn1_enabled |-> FALSE, cn1_layer |-> LAYER_INDEX_CORRECTION,
      cn2_enabled |-> FALSE, cn2_layer |-> LAYER_INDEX_CORRECTION,
      skip_annotator |-> FALSE, api_base |-> settings.api_base ]

\* What the user can make the widgets of a generation dialog show.
WidgetStates(wd) ==
    { [ wd EXCEPT !.cn1_enabled = on, !.cn1_layer = layer ] :
        on \in BOOLEAN,
        layer \in { LAYER_INDEX_CORRECTION, LAYER_INDEX_CORRECTION + 3 } }

\* DialogPopulator.assign_results of the dialog's populators, merged by
\* merged_responses: each named widget's value. connected is whether the
\* populators' handlers were connected to the buttons.
assign_results(wd, connected) ==
    IF ~connected THEN None
    ELSE [ tag |-> "dict",
           width |-> val_widget("Scale", wd.width),
           height |-> val_widget("Scale", wd.height),
           batch_size |-> val_widget("Scale", wd.batch_size),
           seed |-> val_widget("Entry", wd.seed),
           cn1_enabled |-> val_widget("ToggleButton", wd.cn1_enabled),
           cn1_layer |-> val_widget("LayerComboBox", wd.cn1_layer),
           cn2_enabled |-> val_widget("ToggleButton", wd.cn2_enabled),
           cn2_layer |-> val_widget("LayerComboBox", wd.cn2_layer),
           skip_annotator |-> val_widget("ToggleButton", wd.skip_annotator) ]

\* chassis_layers[index], a Python list index: None stands for IndexError.
ChassisLayer(d, index) ==
    IF index >= 0 /\ index < Len(d) THEN [ tag |-> "layer", lid |-> d[index + 1].lid ]
    ELSE IF index < 0 /\ 0 - index <= Len(d)
    THEN [ tag |-> "layer", lid |-> d[Len(d) + index + 1].lid ]
    ELSE None

\* The arguments run_text_2_image's assemble_and_post hands to text_to_image.
Text2ImgArgs(m) ==
    [ width |-> m.width.v, height |-> m.height.v, batch_size |-> m.batch_size.v,
      seed |-> m.seed, cn1_enabled |-> m.cn1_enabled, cn1_layer |-> m.cn1_layer,
      cn2_enabled |-> m.cn2_enabled, cn2_layer |-> m.cn2_layer,
      skip |-> m.skip_annotator ]

\* The arguments run_image_2_image's assemble_and_post hands to
\* image_to_image: an enabled control layer is looked up in the image's
\* layers and stays None when the index is out of range.
Img2ImgArgs(m, d) ==
    LET c1i == m.cn1_layer.v - LAYER_INDEX_CORRECTION
        c2i == m.cn2_layer.v - LAYER_INDEX_CORRECTION
    IN  [ Text2ImgArgs(m) EXCEPT
            !.cn1_enabled = PyBool(Truthy(m.cn1_enabled)),
            !.cn2_enabled = PyBool(Truthy(m.cn2_enabled)),
            !.cn1_layer = IF Truthy(m.cn1_enabled) THEN ChassisLayer(d, c1i) ELSE None,
            !.cn2_layer = IF Truthy(m.cn2_enabled) THEN ChassisLayer(d, c2i) ELSE None ]

\* The arguments run_inpainting's assemble_and_post hands to inpainting: a
\* control layer whose index is out of range is disabled.
InpaintingArgs(m, d) ==
    LET g == Img2ImgArgs(m, d)
    IN  [ g EXCEPT
            !.cn1_enabled = PyBool(Truthy(g.cn1_enabled) /\ g.cn1_layer # None),
            !.cn2_enabled = PyBool(Truthy(g.cn2_enabled) /\ g.cn2_layer # None),
            !.batch_size = Min(MAX_BATCH_SIZE, Max(1, m.batch_size.v)),
            !.height = round_to_multiple(m.height.v, 8) ]

\* save_control_layer(active_layer, ...): the settings go to the layer.
save_control_layer(w, lid) ==
    IF settings.cn_models = 0 THEN Raise(w, "IndexError")
    ELSE LET wrapped == LayerLocal_init(w)
         IN  Ok([ wrapped.w EXCEPT !.doc =
                    [ i \in 1..Len(@) |->
                        IF @[i].lid = lid THEN [ @[i] EXCEPT !.meta = CnMeta ] ELSE @[i] ] ],
                None)

\* assemble_and_post of the command c, with the merged responses m.
assemble_and_post(c, w, m, e) ==
    IF c = "config" THEN Ok(w, None)
    ELSE IF m = None THEN Raise(w, "KeyError")
    ELSE CASE c = "text2img" -> text_to_image(w, Text2ImgArgs(m), e)
           [] c = "img2img" -> image_to_image(w, Img2ImgArgs(m, w.doc), e)
           [] c = "inpainting" -> inpainting(w, InpaintingArgs(m, w.doc), e)
           [] c = "controlnet_layer" -> save_control_layer(w, 0)

\* An api_base that is a URL urlopen opens, but not one poll_server takes.
HttpsApiBase == "https://127.0.0.1:7860"

ApiBases == { ValidApiBase, "", HttpsApiBase }

\* What request.urlopen(url, timeout=3) of server_online meets: an answer, an
\* answer with an error status (HTTPError, a URLError), or no server.
ProbeOutcomes == { "ok", "non2xx", "unreachable" }

\* sd_gui_utils.server_online(url_in)
server_online(probe) == probe = "ok"

\* poll_server(): ValueError when api_base is blank or does not start with
\* "http://"; else the probe is made and its result returned.
poll_server(w, api_base, probe) ==
    IF api_base # ValidApiBase THEN Raise(w, "ValueError")
    ELSE Ok([ w EXCEPT !.probes = Append(@, probe) ], PyBool(server_online(probe)))

Init ==
    /\ InitCommon
    /\ \E mask \in BOOLEAN : doc = << BaseLayer(NoMeta, mask) >>
    /\ sel \in { "none", "part" }
    /\ cwd = "home"
    /\ \E n \in 0..1, url \in ApiBases, probe \in ProbeOutcomes :
         /\ settings = [ cn_models |-> n, api_base |-> url ]
         /\ base_url = url
         /\ \E r \in { poll_server(World, url, probe) } :
                is_server_running = (r.exc = "none" /\ r.ret.v)
    /\ shelf = NoShelf

\* The run_* function returns without a dialog.
ReturnEarly(c, r) ==
    /\ Store(r.w)
    /\ last' = Trace("run", r, [ skip |-> None ], [ resp |-> None ])
    /\ cmd' = c
    /\ pc' = "returned"
    /\ retval' = "CANCEL"
    /\ UNCHANGED << sel, cwd, is_server_running, dialog, widgets, responses, applies,
                    dims, settings, shelf, base_url, layer_data >>

\* The run_* function builds its dialog and waits in dialog.run().
OpenDialog(c, r, online) ==
    /\ Store(r.w)
    /\ last' = Trace("run", r, [ skip |-> None ], [ resp |-> None ])
    /\ cmd' = c
    /\ pc' = "dialog"
    /\ retval' = "CANCEL"
    /\ dialog' = "open"
    /\ widgets' = NewWidgets
    /\ is_server_running' = online
    /\ UNCHANGED << sel, cwd, responses, applies, dims, settings, shelf, base_url, layer_data >>

\* run_text_2_image up to dialog.run()
RunText2Image ==
    /\ pc = "start"
    /\ OpenDialog("text2img", Ok(World, None), is_server_running)

\* run_image_2_image, run_layer_to_controlnet, run_with_image up to dialog.run()
RunPolled ==
    /\ pc = "start"
    /\ \E c \in { "img2img", "controlnet_layer", "config" }, probe \in ProbeOutcomes :
         \E r \in { poll_server(World, settings.api_base, probe) } :
             IF r.exc # "none" THEN ReturnEarly(c, r)
             ELSE OpenDialog(c, r, r.ret.v)

\* An error dialog that is made and never shown.
new_dialog_error_user_unshown(w) == w

\* err_dialog = new_dialog_error_user(...); err_dialog.run(): the user has to
\* answer the dialog before the command goes on.
new_dialog_error_user(w) == [ w EXCEPT !.errs = @ + 1 ]

\* run_inpainting up to dialog.run(): without a mask the user is told and
\* the command returns.
RunInpainting ==
    /\ pc = "start"
    /\ \E r \in { get_active_mask_as_base64(World, sel, TRUE) }, probe \in ProbeOutcomes :
         IF r.exc # "none" THEN ReturnEarly("inpainting", r)
         ELSE IF r.ret = PyStr("")
         THEN ReturnEarly("inpainting",
                          Ok(new_dialog_error_user([ r.w EXCEPT !.msgs = @ + 1 ]), None))
         ELSE \E q \in { poll_server(r.w, settings.api_base, probe) } :
                  IF q.exc # "none" THEN ReturnEarly("inpainting", q)
                  ELSE OpenDialog("inpainting", q, q.ret.v)

\* Whether the populators of the command's dialog got their widgets and
\* handlers: equip_widgets_controlnet raises on an empty cn_models list.
Connected == cmd # "controlnet_layer" \/ settings.cn_models > 0

DialogExchanges ==
    { [ http |-> "ok",
        resp |-> [ tag |-> "json", infoOk |-> TRUE, images |-> 1, seeds |-> 1,
                   infotexts |-> 1, w |-> 64, h |-> 64 ] ] }
    \cup { [ http |-> h, resp |-> None ] : h \in HttpOutcomes \ { "ok" } }

\* The "response" handler of the config dialog: config() saves the settings.
ConfigSaved == IF cmd = "config" THEN [ settings EXCEPT !.api_base = widgets.api_base ]
               ELSE settings

\* Apply or OK: the populators take the widgets' values, dialog.run()
\* returns, assemble_and_post runs; an exception leaves the loop for the
\* except clause of the run_* function.
Clicked(button, m, r, e) ==
    /\ Store(r.w)
    /\ responses' = m
    /\ settings' = ConfigSaved
    /\ last' = [ Trace(button, r, [ skip |-> None ], e) EXCEPT !.skip = PyBool(widgets.skip_annotator) ]
    /\ dialog' = IF r.exc = "none" /\ button = "ok" THEN "destroyed" ELSE dialog
    /\ pc' = IF r.exc # "none" \/ button = "ok" THEN "returned" ELSE pc
    /\ UNCHANGED << sel, cwd, is_server_running, cmd, widgets, retval, dims, shelf, base_url, layer_data >>

ClickApply ==
    /\ pc = "dialog"
    /\ applies < MaxApply
    /\ applies' = applies + 1
    /\ \E x \in DialogExchanges :
         LET e == Env(x, "none", sel, cwd)
             m == assign_results(widgets, Connected)
         IN  \E r \in { assemble_and_post(cmd, World, m, e) } : Clicked("apply", m, r, e)

ClickOK ==
    /\ pc = "dialog"
    /\ UNCHANGED applies
    /\ \E x \in DialogExchanges :
         LET e == Env(x, "none", sel, cwd)
             m == assign_results(widgets, Connected)
         IN  \E r \in { assemble_and_post(cmd, World, m, e) } : Clicked("ok", m, r, e)

\* Cancel: delete_results, dialog.destroy()
ClickCancel ==
    /\ pc = "dialog"
    /\ responses' = None
    /\ dialog' = "destroyed"
    /\ retval' = IF cmd = "config" THEN "CANCEL" ELSE "SUCCESS"
    /\ pc' = "returned"
    /\ last' = [ NoLast EXCEPT !.op = "cancel", !.before = doc ]
    /\ UNCHANGED << doc, sel, disk, cwd, files, layer_count, posts, is_server_running,
                    cmd, widgets, applies, dims, settings, shelf, base_url, layer_data >>

\* The user changes what the widgets show.
EditDialog ==
    /\ pc = "dialog"
    /\ \/ cmd \in GenerationCommands /\ widgets' \in WidgetStates(widgets) \ { widgets }
       \/ cmd = "config" /\ widgets' \in { [ widgets EXCEPT !.api_base = url ] :
                                              url \in { ValidApiBase, "" } } \ { widgets }
    /\ UNCHANGED << doc, sel, disk, cwd, files, layer_count, posts, is_server_running,
                    pc, cmd, dialog, responses, retval, applies, last, dims, settings, shelf, base_url, layer_data >>

\* The user changes the selection in GIMP while the dialog is open.
ChangeSelection ==
    /\ pc = "dialog"
    /\ sel' \in { "none", "part" } \ { sel }
    /\ UNCHANGED << doc, disk, cwd, files, layer_count, posts, is_server_running,
                    pc, cmd, dialog, widgets, responses, retval, applies, last, dims,
                    settings, shelf, base_url, layer_data >>

Next ==
    \/ RunText2Image
    \/ RunPolled
    \/ RunInpainting
    \/ ClickApply
    \/ ClickOK
    \/ ClickCancel
    \/ EditDialog
    \/ ChangeSelection

Spec == Init /\ [][Next]_vars

-----------------------------------------------------------------------------
(* The commands, and the ApiClient called on its own: SpecCalls *)

NextCalls ==
    \/ Next
    \/ CallPost
    \/ CallGet

SpecCalls == Init /\ [][NextCalls]_vars

-----------------------------------------------------------------------------
(* The plug-in's process and its MyShelf: SpecShelf *)

ShelfObject ==
    [ file |-> shelf.file, data |-> shelf.data, alias |-> shelf.alias,
      defaults |-> shelf.defaults ]

\* The process goes on with the shelf s; op is what it did, saved the mapping
\* of the save that wrote the file last, if nothing changed the shelf since.
\* The values the populators of the configuration dialog and of the
\* checkpoint dialog store on OK or Apply (DialogPopulator.assign_results).
ConfigResponses(prompt, url) == [ tag |-> "dict", prompt |-> prompt, api_base |-> url ]
CheckpointResponses(index) == [ tag |-> "dict", sd_model_checkpoint_index |-> PyInt(index) ]

\* A delete_results that keeps what is stored.
delete_results_kept(stored) == stored

\* DialogPopulator.delete_results: self.__responses__ = None
delete_results(stored) == None

ShelfLiveWith(s, saved, op, stored) ==
    /\ shelf' = [ pc |-> "live", file |-> s.file, data |-> s.data, alias |-> s.alias,
                  defaults |-> s.defaults, saved |-> saved, op |-> op ]
    /\ responses' = stored
    /\ UNCHANGED << doc, sel, disk, cwd, files, layer_count, posts, is_server_running,
                    pc, cmd, dialog, widgets, retval, applies, last, dims,
                    settings, base_url, layer_data >>

ShelfLive(s, saved, op) == ShelfLiveWith(s, saved, op, responses)

\* The process is gone: the file stays, the next process has new objects.
ShelfGone(file, saved, op) ==
    /\ shelf' = [ NoShelf EXCEPT !.file = file, !.saved = saved, !.op = op ]
    /\ responses' = None
    /\ UNCHANGED << doc, sel, disk, cwd, files, layer_count, posts, is_server_running,
                    pc, cmd, dialog, widgets, retval, applies, last, dims,
                    settings, base_url, layer_data >>

InitShelf ==
    /\ InitCommon
    /\ doc = << BaseLayer(NoMeta, FALSE) >>
    /\ sel = "none"
    /\ cwd = "home"
    /\ settings = [ cn_models |-> 0, api_base |-> "http://127.0.0.1:7860" ]
    /\ is_server_running = FALSE
    /\ base_url = ValidApiBase
    /\ \E f \in FileContents : shelf = [ NoShelf EXCEPT !.file = f ]

\* GIMP starts the plug-in: StabDiffAuto1111.__init__ makes the MyShelf.
ShelfConstruct ==
    /\ shelf.pc = "none"
    /\ \E readable \in BOOLEAN :
         \E r \in { MyShelf_init(shelf.file, readable) } :
             ShelfLive(r.w, None,
                       [ NoShelfOp EXCEPT !.name = "load", !.exc = r.exc,
                                          !.before = shelf.file, !.saved = shelf.saved,
                                          !.readable = readable ])

ShelfSave ==
    /\ shelf.pc = "live"
    /\ \E x \in Mappings, writable \in BOOLEAN :
         \E r \in { MyShelf_save(ShelfObject, x, writable, "no") } :
             ShelfLive(r.w, IF writable /\ shelf.data.tag = "dict" THEN Dict(x) ELSE None,
                       [ NoShelfOp EXCEPT !.name = "save", !.exc = r.exc,
                                          !.before = shelf.file, !.sets = TRUE ])

ShelfSet ==
    /\ shelf.pc = "live"
    /\ \E k \in ShelfKeys, writable \in BOOLEAN :
         \E v \in ShelfValues(k) :
             \E r \in { MyShelf_set(ShelfObject, k, v, writable) } :
                 ShelfLive(r.w, None,
                           [ NoShelfOp EXCEPT !.name = "set", !.exc = r.exc,
                                              !.before = shelf.file, !.sets = TRUE ])

ShelfGet ==
    /\ shelf.pc = "live"
    /\ \E k \in ShelfKeys \cup { "model" } :
         \E r \in { MyShelf_get(ShelfObject, k, None) } :
             ShelfLive(r.w, shelf.saved,
                       [ NoShelfOp EXCEPT !.name = "get", !.exc = r.exc,
                                          !.before = shelf.file ])

\* The "response" handler of equip_widgets_config on OK or Apply
ShelfConfig ==
    /\ shelf.pc = "live"
    /\ \E prompt \in ShelfValues("prompt"), url \in ShelfValues("api_base"),
          writable \in BOOLEAN :
         \E r \in { config(ShelfObject, prompt, url, writable) } :
             ShelfLive(r.w, None,
                       [ NoShelfOp EXCEPT !.name = "config", !.exc = r.exc,
                                          !.before = shelf.file, !.sets = TRUE ])

\* The "response" handler of equip_widgets_checkpoint on OK or Apply: the
\* dialog has it when the settings held a checkpoint as it was built.
ShelfChangeModel ==
    /\ shelf.pc = "live"
    /\ Checkpoint(shelf.data).tag \notin { "None", "missing" }
    /\ \E available \in BOOLEAN, http \in HttpOutcomes, writable \in BOOLEAN :
         \E r \in { change_model(ShelfObject, 1, available, http, writable) } :
             ShelfLive(r.w, None,
                       [ NoShelfOp EXCEPT
                           !.name = "change_model", !.exc = r.exc, !.before = shelf.file,
                           !.sets = change_model_sets(ShelfObject, 1, available, http),
                           !.http = IF available THEN http ELSE "none",
                           !.was = Checkpoint(shelf.data) ])

\* The process dies in MyShelf.save(x).
ShelfCrashInSave ==
    /\ shelf.pc = "live"
    /\ \E x \in Mappings, point \in { "updated", "truncated", "partial", "written" } :
         \E r \in { MyShelf_save(ShelfObject, x, TRUE, point) } :
             ShelfGone(r.w.file, None,
                       [ NoShelfOp EXCEPT !.name = "crash", !.before = shelf.file,
                                          !.new = json_dump(r.w.data) ])

\* The plug-in's procedure returns and its process ends.
ShelfExit ==
    /\ shelf.pc = "live"
    /\ ShelfGone(shelf.file, shelf.saved, [ NoShelfOp EXCEPT !.name = "exit" ])

NextShelf ==
    \/ ShelfConstruct
    \/ ShelfSave
    \/ ShelfSet
    \/ ShelfGet
    \/ ShelfConfig
    \/ ShelfChangeModel
    \/ ShelfCrashInSave
    \/ ShelfExit

SpecShelf == InitShelf /\ [][NextShelf]_vars

-----------------------------------------------------------------------------
(* The buttons of the configuration and the checkpoint dialog:
   SpecSettingsDialog *)

\* OK or Apply in the configuration dialog: "clicked" runs assign_results of
\* the populators, "response" runs the handler of equip_widgets_config.
SettingsApply ==
    /\ shelf.pc = "live"
    /\ \E prompt \in ShelfValues("prompt"), url \in ShelfValues("api_base"),
          writable \in BOOLEAN :
         \E r \in { config(ShelfObject, prompt, url, writable) } :
             ShelfLiveWith(r.w, None,
                           [ NoShelfOp EXCEPT !.name = "config", !.exc = r.exc,
                                              !.before = shelf.file, !.sets = TRUE ],
                           ConfigResponses(prompt, url))

\* OK or Apply in the checkpoint dialog, which has its handler when the
\* settings held a checkpoint as it was built.
CheckpointApply ==
    /\ shelf.pc = "live"
    /\ Checkpoint(shelf.data).tag \notin { "None", "missing" }
    /\ \E available \in BOOLEAN, http \in HttpOutcomes, writable \in BOOLEAN :
         \E r \in { change_model(ShelfObject, 1, available, http, writable) } :
             ShelfLiveWith(r.w, None,
                           [ NoShelfOp EXCEPT
                               !.name = "change_model", !.exc = r.exc,
                               !.before = shelf.file,
                               !.sets = change_model_sets(ShelfObject, 1, available, http),
                               !.http = IF available THEN http ELSE "none",
                               !.was = Checkpoint(shelf.data) ],
                           CheckpointResponses(1))

\* Cancel in either dialog: "clicked" runs delete_results of the populators,
\* the "response" handlers only log.
SettingsCancel ==
    /\ shelf.pc = "live"
    /\ ShelfLiveWith(ShelfObject, shelf.saved,
                     [ NoShelfOp EXCEPT !.name = "cancel", !.before = shelf.file,
                                        !.was = responses ],
                     delete_results(responses))

NextSettingsDialog ==
    \/ ShelfConstruct
    \/ SettingsApply
    \/ CheckpointApply
    \/ SettingsCancel
    \/ ShelfExit

SpecSettingsDialog == InitShelf /\ [][NextSettingsDialog]_vars

-----------------------------------------------------------------------------
(* The metadata of a layer: SpecLayerData *)

\* A layer that has no metadata yet.
InitLayerData ==
    /\ InitCommon
    /\ doc = << BaseLayer(NoMeta, FALSE) >>
    /\ sel = "none"
    /\ cwd = "home"
    /\ settings = [ cn_models |-> 0, api_base |-> ValidApiBase ]
    /\ shelf = NoShelf
    /\ is_server_running = FALSE
    /\ base_url = ValidApiBase

LayerDataStep ==
    UNCHANGED << doc, sel, disk, cwd, files, layer_count, posts, is_server_running,
                 pc, cmd, dialog, widgets, responses, retval, applies, last, dims,
                 settings, shelf, base_url >>

\* layer.save_data(d)
LayerSaveData ==
    /\ \E d \in LayerDicts :
         \E r \in { LayerLocal_save_data(layer_data.parasite, d) } :
             layer_data' = [ NoLayerData EXCEPT !.parasite = r.w, !.saved = d,
                                                !.op = "save", !.exc = r.exc ]
    /\ LayerDataStep

\* data = layer.load_data(defaults)
LayerLoadData ==
    /\ \E defaults \in LayerDefaults :
         \E r \in { LayerLocal_load_data(layer_data.parasite, defaults) } :
             layer_data' = [ layer_data EXCEPT !.given = defaults, !.defaults = defaults,
                                               !.loaded = r.ret, !.alias = r.w.alias,
                                               !.op = "load", !.exc = r.exc ]
    /\ LayerDataStep

\* data.update({"input_image": ...}) of get_control_net_params on the dict
\* load_data returned: what is the same object changes with it.
LayerUpdateData ==
    /\ layer_data.op = "load"
    /\ layer_data.exc = "none"
    /\ layer_data.loaded.tag = "dict"
    /\ \E u \in { Dict(Update(layer_data.loaded.m, [ input_image |-> PyStr("b64") ])) } :
         layer_data' = [ layer_data EXCEPT !.loaded = u,
                                           !.defaults = IF layer_data.alias THEN u ELSE @,
                                           !.op = "update" ]
    /\ LayerDataStep

NextLayerData ==
    \/ LayerSaveData
    \/ LayerLoadData
    \/ LayerUpdateData

SpecLayerData == InitLayerData /\ [][NextLayerData]_vars

-----------------------------------------------------------------------------
(* The batch size and the seed of a request: SpecRequest *)

BatchSizes == (0 - BatchMax)..BatchMax

Seeds == { None, PyStr("") } \cup { PyInt(i) : i \in (0 - SeedMax)..SeedMax }

\* The arguments of a call with this batch size and seed, no control unit.
RequestArgs(n, seed) ==
    [ width |-> 512, height |-> 512, batch_size |-> n, seed |-> seed,
      cn1_enabled |-> PyBool(FALSE), cn1_layer |-> None,
      cn2_enabled |-> PyBool(FALSE), cn2_layer |-> None, skip |-> PyBool(FALSE) ]

InitRequest ==
    /\ InitCommon
    /\ doc = << BaseLayer(NoMeta, FALSE) >>
    /\ sel = "part"
    /\ cwd = "home"
    /\ settings = [ cn_models |-> 0, api_base |-> ValidApiBase ]
    /\ shelf = NoShelf
    /\ is_server_running = FALSE
    /\ base_url = ValidApiBase

RequestTextToImage ==
    /\ pc = "start"
    /\ \E n \in BatchSizes, seed \in Seeds, x \in DialogExchanges :
         LET e == Env(x, "none", sel, cwd)
             a == RequestArgs(n, seed)
         IN  \E r \in { text_to_image(World, a, e) } : Returned("text_to_image", r, a, e)

RequestImageToImage ==
    /\ pc = "start"
    /\ \E n \in BatchSizes, seed \in Seeds, x \in DialogExchanges :
         LET e == Env(x, "none", sel, cwd)
             a == RequestArgs(n, seed)
         IN  \E r \in { image_to_image(World, a, e) } : Returned("image_to_image", r, a, e)

RequestInpainting ==
    /\ pc = "start"
    /\ \E n \in BatchSizes, seed \in Seeds, x \in DialogExchanges :
         LET e == Env(x, "none", sel, cwd)
             a == RequestArgs(n, seed)
         IN  \E r \in { inpainting(World, a, e) } : Returned("inpainting", r, a, e)

\* run_inpainting's assemble_and_post with this batch size and seed in the
\* merged responses: the batch size is clamped before inpainting is called.
RequestRunInpainting ==
    /\ pc = "start"
    /\ \E n \in BatchSizes, seed \in Seeds, x \in DialogExchanges :
         LET e == Env(x, "none", sel, cwd)
             m == [ assign_results(NewWidgets, TRUE) EXCEPT !.batch_size = PyInt(n),
                                                           !.seed = seed ]
             a == [ InpaintingArgs(m, doc) EXCEPT !.batch_size = n ]
         IN  \E r \in { assemble_and_post("inpainting", World, m, e) } :
                 Returned("run_inpainting", r, a, e)

NextRequest ==
    \/ RequestTextToImage
    \/ RequestImageToImage
    \/ RequestInpainting
    \/ RequestRunInpainting

SpecRequest == InitRequest /\ [][NextRequest]_vars

-----------------------------------------------------------------------------
(* Properties *)

GenerationOps == { "text_to_image", "image_to_image", "inpainting" }

\* The layers the last handler added to the document.
NewLayers == Range(doc) \ Range(last.before)

Provenance == { l \in NewLayers : l.meta.tag = "prov" }

Annotators == { l \in NewLayers : l.kind = "annotator" }

\* The last handler was a generation command whose POST was answered with a
\* response of N images and K <= N seeds, each seed with its info text.
Materialized ==
    /\ last.op \in GenerationOps
    /\ Len(last.apilog) = 1
    /\ last.apilog[1].http = "ok"
    /\ last.resp.infoOk
    /\ last.resp.seeds <= last.resp.images
    /\ last.resp.infotexts >= last.resp.seeds

\* C1: after a response with N images and K <= N seeds is materialized,
\* exactly K new layers carry provenance (the seed and info text of images
\* 0..K-1); the other N - K images are annotator images, none of which is
\* inserted when skip_annotator_layers is set and all of which are inserted
\* when it is not; no other layer is added.
C1_ResponseMaterialization ==
    Materialized =>
        /\ Cardinality(Provenance) = last.resp.seeds
        /\ { l.meta.seed : l \in Provenance } = 0..(last.resp.seeds - 1)
        /\ \A l \in Provenance : l.meta.info = l.meta.seed
        /\ Truthy(last.skip) => Annotators = {}
        /\ ~Truthy(last.skip) =>
               Cardinality(Annotators) = last.resp.images - last.resp.seeds
        /\ NewLayers = Provenance \cup Annotators

\* A response of two images and one seed was materialized with the skip flag
\* set (one provenance layer, no annotator layer).
C1_Witness ==
    /\ Materialized
    /\ last.resp.images = 2
    /\ last.resp.seeds = 1
    /\ Truthy(last.skip)
    /\ Cardinality(Provenance) = 1
    /\ Annotators = {}

Abs(x) == IF x < 0 THEN 0 - x ELSE x

\* C2: the width and height a generation command transmits are multiples of
\* 8 at most 4 away from the values given, and the sizes of a control unit's
\* layer are multiples of 64 at most 32 away from the layer's sizes.
C2_Rounding ==
    pc = "done" /\ last.op = "none" =>
        \A i \in 1..2 :
            LET v == << dims.width, dims.height >>[i]
            IN  /\ dims.sent[i] % 8 = 0
                /\ Abs(dims.sent[i] - v) <= 4
                /\ dims.unit[i] % 64 = 0
                /\ Abs(dims.unit[i] - v) <= 32

\* The sizes 100 and 60 were rounded: 100 is halfway between 96 and 104.
C2_Witness ==
    /\ pc = "done"
    /\ dims.width = 100
    /\ dims.height = 60
    /\ dims.sent = << 96, 64 >>
    /\ dims.unit = << 128, 64 >>

\* C3: on every exit path of get_control_net_params, the exceptional ones
\* included, the document holds the same layers as before the call: the
\* duplicate is gone and the source layer is as it was.
C3_ControlNetParamsRestoresDocument ==
    \A i \in 1..Len(last.cnlog) :
        Range(last.cnlog[i].after) = Range(last.cnlog[i].before)

\* C4: ApiClient.post and ApiClient.get never raise to their caller, whatever
\* the outcome of the HTTP exchange.
C4_ApiClientNeverRaises ==
    \A i \in 1..Len(last.apilog) : last.apilog[i].exc = "none"

\* C5: a POST answered non-2xx gives its caller an explicit failure value,
\* never None.
C5_PostFailureIsExplicit ==
    \A i \in 1..Len(last.apilog) :
        (last.apilog[i].method = "post" /\ last.apilog[i].http = "non2xx")
            => (last.apilog[i].exc = "none" /\ last.apilog[i].ret # "None")

\* C6: a generation command whose request fails (server unreachable or a
\* non-2xx answer) inserts no layer and shows the user a message.
C6_RequestFailureReported ==
    \A i \in 1..Len(last.apilog) :
        (last.op \in GenerationOps /\ last.apilog[i].http \in { "unreachable", "non2xx" })
            => (last.msgs > 0 /\ doc = last.before)

\* C7: every temporary file a generation command staged is in the plug-in's
\* TempFiles list, and none of them exists once cleanup() has run.
C7_TempFilesTrackedAndRemoved ==
    (last.op \in GenerationOps /\ last.cleaned) =>
        \A f \in last.staged :
            /\ [ stem |-> f.stem, id |-> f.id ] \in Range(files)
            /\ f \notin disk

\* C8: cleanup() has run on every exit path of a generation command that
\* staged a temporary file.
C8_CleanupOnEveryExit ==
    (last.op \in GenerationOps /\ last.staged # {}) => last.cleaned

\* C9: in every command's dialog loop the dialog is still open after Apply
\* and is destroyed after OK or Cancel, also when assemble_and_post raised.
C9_DialogOpenOnlyAfterApply ==
    /\ last.op = "apply" => dialog = "open"
    /\ last.op \in { "ok", "cancel" } => dialog = "destroyed"

\* The request body the widgets of a generation dialog stand for.
CarriesFullBody(body) ==
    /\ body.endpoint = (IF cmd = "text2img" THEN "/sdapi/v1/txt2img" ELSE "/sdapi/v1/img2img")
    /\ body.width = round_to_multiple(widgets.width, 8)
    /\ body.height = round_to_multiple(widgets.height, 8)
    /\ body.batch_size = BatchSize(widgets.batch_size)
    /\ body.seed = PyStr(widgets.seed)
    /\ body.init_images = (cmd # "text2img")
    /\ body.mask = (cmd = "inpainting")

\* C10: every Apply click in a generation dialog sends one POST that carries
\* the full request body of the values shown, however often the same values
\* were applied before.
C10_ApplySendsFullRequest ==
    [][ (cmd \in GenerationCommands /\ applies' = applies + 1) =>
            /\ Len(posts') = Len(posts) + 1
            /\ CarriesFullBody(posts'[Len(posts')]) ]_vars

\* The value load should leave at the key k of the settings: the file's when
\* the file is a JSON object with that key, the default mapping's when not.
MergedValue(k) ==
    IF shelf.file.tag = "json" /\ shelf.file.v.tag = "dict" /\ k \in DOMAIN shelf.file.v.m
    THEN shelf.file.v.m[k]
    ELSE STABLE_DIFF_AUTO1111_DEFAULT_SETTINGS[k]

\* C11: after MyShelf.load of a readable file that holds a JSON object, every
\* key of the default mapping is in the settings, with the file's value when
\* the file has the key and the default value when it has not.
C11_LoadMergesOverDefaults ==
    (shelf.op.name = "load" /\ shelf.op.readable
        /\ shelf.file.tag = "json" /\ shelf.file.v.tag = "dict") =>
        /\ shelf.data.tag = "dict"
        /\ \A k \in DOMAIN STABLE_DIFF_AUTO1111_DEFAULT_SETTINGS :
               k \in DOMAIN shelf.data.m /\ shelf.data.m[k] = MergedValue(k)

\* C12: when the settings file is absent or is not valid JSON, MyShelf.load
\* raises nothing and the settings equal the default mapping.
C12_LoadToleratesBadFile ==
    (shelf.op.name = "load" /\ shelf.op.before.tag \in { "absent", "text" }) =>
        /\ shelf.op.exc = "none"
        /\ shelf.data = Dict(STABLE_DIFF_AUTO1111_DEFAULT_SETTINGS)

\* A file holding the beginning of a JSON document was loaded.
C12_Witness ==
    /\ shelf.op.name = "load"
    /\ shelf.op.readable
    /\ shelf.op.before = Text("partial")
    /\ shelf.file = Text("partial")
    /\ shelf.data = Dict(STABLE_DIFF_AUTO1111_DEFAULT_SETTINGS)

\* C13: save(x) that wrote the file, then load() of the readable file by the
\* next process, yields the default mapping updated with x, whatever the
\* file held before.
C13_SaveLoadRoundTrip ==
    (shelf.op.name = "load" /\ shelf.op.readable /\ shelf.op.saved # None) =>
        shelf.data = Dict(Update(STABLE_DIFF_AUTO1111_DEFAULT_SETTINGS, shelf.op.saved.m))

\* C14: after a crash at any point of MyShelf.save the file holds what it
\* held before the call or the complete new document, never nothing or a
\* part of a document.
C14_CrashKeepsFileWhole ==
    shelf.op.name = "crash" => shelf.file \in { shelf.op.before, shelf.op.new }

\* C15: after save, set, config or change_model changed the settings and
\* returned, the file holds the settings in memory, also when the file could
\* not be written.
C15_FileEqualsMemory ==
    (shelf.op.name \in { "save", "set", "config", "change_model" }
        /\ shelf.op.sets /\ shelf.op.exc = "none" /\ shelf.data.tag = "dict")
        => shelf.file = json_dump(shelf.data)

\* C16: MyShelf.get(key, default) never raises, whatever the file held when
\* it was loaded: a JSON object, another JSON value, or no JSON at all.
C16_GetNeverRaises ==
    shelf.op.name = "get" => shelf.op.exc = "none"

\* C17: a command started with an api_base that is blank or is no http://
\* URL sends no request to the server, neither a probe nor a POST.
C17_InvalidApiBaseSendsNothing ==
    (cmd \in Commands /\ base_url # ValidApiBase) =>
        (posts = << >> /\ last.probes = << >>)

OutOfRange(index, n) == index < 0 \/ index >= n

\* C19: when Apply or OK of image-to-image or inpainting finds control unit 1
\* enabled with a combo-box value whose index (value - 2) is out of the range
\* of the image's layers, the user gets a blocking error dialog, no POST is
\* sent and no layer is handed to the control unit.
C19_LayerIndexOutOfRange ==
    (cmd \in { "img2img", "inpainting" } /\ last.op \in { "apply", "ok" }
        /\ responses # None /\ Truthy(responses.cn1_enabled)
        /\ OutOfRange(responses.cn1_layer.v - LAYER_INDEX_CORRECTION, Len(last.before)))
        => /\ last.errs > 0
           /\ \A i \in 1..Len(last.apilog) : last.apilog[i].method # "post"
           /\ \A i \in 1..Len(last.cnlog) : last.cnlog[i].exc # "none"

\* C20: a generation command whose plug-in found the server not reachable
\* sends no POST, and a probe that got any HTTP answer, an error status
\* included, reports the server reachable.
C20_ProbeDecides ==
    /\ (cmd \in GenerationCommands /\ ~is_server_running) => posts = << >>
    /\ (last.op = "run" /\ last.probes # << >> /\ last.probes[1] \in { "ok", "non2xx" })
           => is_server_running

-----------------------------------------------------------------------------
(* The request bodies *)

\* The control units the caller of the last generation command enabled.
EnabledUnits ==
    (IF last.given.cn1_enabled THEN 1 ELSE 0) + (IF last.given.cn2_enabled THEN 1 ELSE 0)

\* C21: the body a generation command posts has alwayson_scripts.controlnet.args
\* if and only if a control unit is enabled, with one entry per enabled unit,
\* and every entry is a control-unit object of get_control_net_params, never None.
C21_ControlUnitsInRequest ==
    (last.op \in GenerationOps /\ Len(posts) = 1) =>
        /\ posts[1].scripts <=> EnabledUnits > 0
        /\ Len(posts[1].units) = EnabledUnits
        /\ \A j \in 1..Len(posts[1].units) : posts[1].units[j].tag = "unit"

\* The last handler was a generation command, called or reached through
\* run_inpainting, and its request went out.
Transmitted ==
    /\ last.op \in GenerationOps \cup { "run_inpainting" }
    /\ Len(posts) = 1

\* C22: for every integer batch size n given to text_to_image, image_to_image
\* or inpainting, the transmitted batch_size is max(1, min(20, n)).
C22_BatchSizeClamped ==
    Transmitted => posts[1].batch_size = Max(1, Min(20, last.given.batch_size))

\* A batch size outside 1..20 was given and went out as the nearer bound.
C22_Witness ==
    /\ Transmitted
    /\ \/ last.given.batch_size < 1 /\ posts[1].batch_size = 1
       \/ last.given.batch_size > 20 /\ posts[1].batch_size = 20

\* C23: in every generation request a seed of 0, None or "" is transmitted as
\* -1, and every other integer seed is transmitted unchanged.
C23_SeedMapping ==
    Transmitted =>
        LET seed == last.given.seed
        IN  CASE seed.tag = "None" -> posts[1].seed = PyInt(-1)
              [] seed.tag = "str" /\ seed.v = "" -> posts[1].seed = PyInt(-1)
              [] seed.tag = "int" /\ seed.v = 0 -> posts[1].seed = PyInt(-1)
              [] seed.tag = "int" /\ seed.v # 0 -> posts[1].seed = seed
              [] OTHER -> TRUE

\* A seed of 0 went out as -1.
C23_Witness ==
    /\ Transmitted
    /\ last.given.seed = PyInt(0)
    /\ posts[1].seed = PyInt(-1)

-----------------------------------------------------------------------------
(* The metadata of a layer *)

\* C24: for every JSON object d, LayerData.save(d) on a layer followed by a
\* load on the same layer returns d; a layer with no attached metadata loads
\* as a copy of the given defaults, which stay as they were given.
C24_LayerDataRoundTrip ==
    /\ (layer_data.op = "load" /\ layer_data.saved.tag = "dict" /\ IsJson(layer_data.saved))
          => (layer_data.exc = "none" /\ layer_data.loaded = layer_data.saved)
    /\ (layer_data.op = "load" /\ layer_data.parasite.tag = "None")
          => (layer_data.exc = "none" /\ layer_data.loaded = layer_data.given
              /\ ~layer_data.alias)
    /\ layer_data.op \in { "load", "update" } => layer_data.defaults = layer_data.given

\* A JSON object with a nested object was saved over a layer's metadata and
\* loaded back with defaults that have another key.
C24_Witness ==
    /\ layer_data.op = "load"
    /\ layer_data.saved = Dict([ seed |-> Dict([ seed |-> PyInt(7) ]) ])
    /\ layer_data.given = Dict([ module |-> PyStr("none") ])
    /\ layer_data.loaded = layer_data.saved

-----------------------------------------------------------------------------
(* Retries *)

\* C25: nothing is retried: a call of ApiClient.post or ApiClient.get
\* issues at most one HTTP request, and an OK or Apply click at most one
\* generation POST, whether the request succeeds or fails.
C25_NoRetry ==
    [][ /\ Len(posts') <= Len(posts) + 1
        /\ Len(last'.apilog) <= 1
        /\ last'.urlopens <= Len(last'.apilog) ]_vars

\* An Apply click whose POST the server refused: one request went out.
C25_Witness ==
    /\ last.op = "apply"
    /\ cmd \in GenerationCommands
    /\ Len(last.apilog) = 1
    /\ last.apilog[1].http = "non2xx"
    /\ last.urlopens = 1
    /\ Len(posts) = applies

-----------------------------------------------------------------------------
(* The settings in use *)

\* C26: the default mapping STABLE_DIFF_AUTO1111_DEFAULT_SETTINGS is never
\* modified: no sequence of MyShelf load, save, set, config or change_model
\* calls changes its keys or values, also when there was no settings file at
\* start-up.
C26_DefaultsNeverModified ==
    shelf.defaults = STABLE_DIFF_AUTO1111_DEFAULT_SETTINGS

\* C27: in every reachable state of a plug-in instance the base URL the
\* ApiClient uses for its requests is the api_base setting that poll_server
\* validates and probes, also after config() has stored a new api_base.
C27_ApiBaseInUse ==
    base_url = settings.api_base

\* C28: change_model updates the stored sd_model_checkpoint only when the
\* model-change POST succeeded: after a non-2xx answer or with the server
\* unreachable the stored checkpoint is unchanged; and after a successful
\* change the stored value is one that the checkpoint dialog resolves to
\* the model that was chosen (here the second of the list, index 1).
C28_CheckpointFollowsPost ==
    (shelf.op.name = "change_model" /\ shelf.op.exc = "none") =>
        /\ shelf.op.http \in { "non2xx", "unreachable" }
              => Checkpoint(shelf.data) = shelf.op.was
        /\ (shelf.op.http = "ok" /\ shelf.op.sets)
              => checkpoints_index(ModelTitles, Checkpoint(shelf.data)) = 1

-----------------------------------------------------------------------------
(* What the dialogs leave *)

\* C29: the status a generation command (run_text_2_image, run_image_2_image,
\* run_inpainting, run_layer_to_controlnet) returns to the host matches the
\* user's action: SUCCESS when the dialog was confirmed with OK and the
\* operation ran, CANCEL when the user cancelled the dialog.
C29_StatusMatchesAction ==
    (pc = "returned" /\ cmd \in GenerationCommands \cup { "controlnet_layer" }) =>
        /\ (last.op = "ok" /\ last.exc = "none") => retval = "SUCCESS"
        /\ last.op = "cancel" => retval = "CANCEL"

\* C30: closing a configuration dialog with Cancel leaves the in-memory
\* settings and the persisted settings file unchanged and discards the
\* populators' stored responses; only OK and Apply write settings.
C30_CancelLeavesSettings ==
    [][ shelf'.op.name = "cancel" =>
            /\ shelf'.file = shelf.file
            /\ shelf'.data = shelf.data
            /\ shelf'.defaults = shelf.defaults
            /\ responses' = None ]_vars

\* Cancel after an Apply that had written the settings file: the file and
\* the settings are as Apply left them, the stored responses are gone.
C30_Witness ==
    /\ shelf.op.name = "cancel"
    /\ shelf.op.was = ConfigResponses(PyStr("cat"), PyStr(""))
    /\ responses = None
    /\ shelf.file = json_dump(shelf.data)
    /\ shelf.data.tag = "dict"
    /\ shelf.data.m["api_base"] = PyStr("")

====
